---------------------------- MODULE Spec2Model ----------------------------
(***************************************************************************)
(* Model of internal/genasmdb (x86.go): gen() opens the embedded           *)
(* asmdb/x86data.js, parse() cuts the JSON payload out from between the    *)
(* two magic comments, json.Unmarshal decodes it into the X86 struct, and  *)
(* gen() prints the struct (Instructions cleared) and the derived          *)
(* []X86Instruction.                                                       *)
(*                                                                         *)
(* Bytes are one-character strings, a []byte / string is a sequence of     *)
(* them.  Go's 0-based half-open slice s[lo:hi] is Slice(s, lo, hi).       *)
(***************************************************************************)
EXTENDS Integers, Sequences, FiniteSets

VARIABLES
    content,       \* bytes of the embedded file asmdb/x86data.js
    pc,            \* position in main/gen
    err,           \* the error gen returns: <<>> is nil, else the %w chain
    x86AsmData,    \* gen: result of parse
    x86Asm,        \* gen: the decoded X86 struct
    instructions,  \* gen: local copy of x86Asm.Instructions
    insts,         \* gen: the derived []X86Instruction
    i,             \* gen: loop index of the range loop
    stdout,        \* what fmt.Printf has written
    exit           \* process exit code, -1 while running

vars == <<content, pc, err, x86AsmData, x86Asm, instructions, insts, i,
          stdout, exit>>

(***************************************************************************)
(* Bounds of the model.                                                    *)
(***************************************************************************)
\* longest file assembled from raw pieces (markers, newline, "{}")
MaxPieces == 5
\* longest "instructions" list of a generated JSON document
MaxInsts == 2

(***************************************************************************)
(* The magic comments.                                                     *)
(***************************************************************************)
markJSONBegin == <<"/","/"," ","$","{","J","S","O","N",":","B","E","G","I","N","}">>

markJSONEnd == <<"/","/"," ","$","{","J","S","O","N",":","E","N","D","}">>

NL == <<"\n">>

(***************************************************************************)
(* Slices.  A slice expression out of range panics in Go; the model keeps  *)
(* that outcome apart: [panic |-> TRUE].                                   *)
(***************************************************************************)
SliceOK(s, lo, hi) == 0 <= lo /\ lo <= hi /\ hi <= Len(s)

Slice(s, lo, hi) ==
    IF SliceOK(s, lo, hi)
    THEN [panic |-> FALSE, s |-> SubSeq(s, lo + 1, hi)]
    ELSE [panic |-> TRUE, s |-> <<>>]

HasPrefixAt(s, sep, k) ==
    /\ k + Len(sep) <= Len(s)
    /\ \A j \in 1..Len(sep) : s[k + j] = sep[j]

\* bytes.Index: the 0-based index of the first occurrence of sep in s, or -1
Index(s, sep) ==
    LET hits == {k \in 0..(Len(s) - Len(sep)) : HasPrefixAt(s, sep, k)}
    IN  IF hits = {} THEN -1
        ELSE CHOOSE k \in hits : \A m \in hits : k <= m

\* bytes.SplitN for n >= 1: at most n pieces, cut at the first n-1 separators
RECURSIVE SplitN(_, _, _)
SplitN(s, sep, n) ==
    LET m == Index(s, sep)
    IN  IF n <= 1 \/ m < 0 THEN <<s>>
        ELSE <<SubSeq(s, 1, m)>>
             \o SplitN(SubSeq(s, m + Len(sep) + 1, Len(s)), sep, n - 1)

(***************************************************************************)
(* parse (x86.go:240-266).                                                 *)
(***************************************************************************)
ErrRead  == "read r reader"
ErrSplit == "could not split asmdb data by markJSONBegin magic comment"
ErrEmpty == "incorrect splitted asmdb data"
ErrFind  == "could not find markJSONEnd magic comment from asmdb data"
Panic    == "panic: slice bounds or index out of range"

ParseFail(e) == [data |-> <<>>, err |-> e]

\* len(splitted) <= 1 (and the same test off by one)
BeginMissingOffByOne(splitted) == Len(splitted) < 1
BeginMissing(splitted) == Len(splitted) <= 1

\* len(data) == 0 (and the same test left out)
PayloadEmptyNever(data) == FALSE
PayloadEmpty(data) == Len(data) = 0

\* data[1:] (and data[2:])
TrimFirstTwo(data) == Slice(data, 2, Len(data))
TrimFirst(data) == Slice(data, 1, Len(data))

\* idx <= 0 (and the same test off by one)
EndMissingOffByOne(idx) == idx < 0
EndMissing(idx) == idx <= 0

\* data[:idx-1] (and data[:idx], which keeps the newline)
TrimEndKeepNewline(data, idx) == Slice(data, 0, idx)
TrimEnd(data, idx) == Slice(data, 0, idx - 1)

\* readOK: whether io.ReadAll returned buf without an error
parse(readOK, buf) ==
    IF ~readOK THEN ParseFail(ErrRead)
    ELSE
    LET splitted == SplitN(buf, markJSONBegin, 2)
    IN  IF BeginMissing(splitted) THEN ParseFail(ErrSplit)
        ELSE IF Len(splitted) < 2 THEN ParseFail(Panic)
        ELSE
        LET data == splitted[2]
        IN  IF PayloadEmpty(data) THEN ParseFail(ErrEmpty)
            ELSE
            LET trimmed == TrimFirst(data)
                idx == Index(trimmed.s, markJSONEnd)
                cut == TrimEnd(trimmed.s, idx)
            IN  IF trimmed.panic THEN ParseFail(Panic)
                ELSE IF EndMissing(idx) THEN ParseFail(ErrFind)
                ELSE IF cut.panic THEN ParseFail(Panic)
                ELSE [data |-> cut.s, err |-> "nil"]


(***************************************************************************)
(* json.Unmarshal (github.com/go-json-experiment/json) into X86,           *)
(* x86.go:74-82 and 209-212.  The library's source is not part of the      *)
(* repository; the model follows its documented behaviour on the JSON      *)
(* the inputs contain: objects, arrays and strings without escapes,        *)
(* with insignificant whitespace.  It matches member names exactly,        *)
(* ignores unknown members, rejects duplicate names and trailing data,     *)
(* and decodes a JSON array into a Go array only when the lengths agree.   *)
(***************************************************************************)
JStr(s) == [t |-> "str", s |-> s, a |-> <<>>, k |-> <<>>]
JArr(a) == [t |-> "arr", s |-> <<>>, a |-> a, k |-> <<>>]
JObj(k, a) == [t |-> "obj", s |-> <<>>, a |-> a, k |-> k]

PFail == [ok |-> FALSE, v |-> JStr(<<>>), next |-> 0]
POk(v, next) == [ok |-> TRUE, v |-> v, next |-> next]

IsWS(c) == c \in {" ", "\n", "\t", "\r"}

RECURSIVE SkipWS(_, _)
SkipWS(s, p) == IF p <= Len(s) /\ IsWS(s[p]) THEN SkipWS(s, p + 1) ELSE p

At(s, p, c) == p <= Len(s) /\ s[p] = c

\* position of the quote closing the string whose body starts at p, 0 if none
RECURSIVE StringEnd(_, _)
StringEnd(s, p) ==
    IF p > Len(s) \/ s[p] \in {"\\", "\n", "\t", "\r"} THEN 0
    ELSE IF s[p] = "\"" THEN p
    ELSE StringEnd(s, p + 1)

\* s[p] is the opening quote
ScanString(s, p) ==
    LET q == StringEnd(s, p + 1)
    IN  IF q = 0 THEN PFail ELSE POk(JStr(SubSeq(s, p + 1, q - 1)), q + 1)

RECURSIVE ParseValue(_, _)
RECURSIVE ParseElems(_, _, _)
RECURSIVE ParseMembers(_, _, _, _)

\* the value starting at or after p (whitespace skipped)
ParseValue(s, p0) ==
    LET p == SkipWS(s, p0)
    IN  IF At(s, p, "\"") THEN ScanString(s, p)
        ELSE IF At(s, p, "[")
             THEN IF At(s, SkipWS(s, p + 1), "]")
                  THEN POk(JArr(<<>>), SkipWS(s, p + 1) + 1)
                  ELSE ParseElems(s, p + 1, <<>>)
        ELSE IF At(s, p, "{")
             THEN IF At(s, SkipWS(s, p + 1), "}")
                  THEN POk(JObj(<<>>, <<>>), SkipWS(s, p + 1) + 1)
                  ELSE ParseMembers(s, p + 1, <<>>, <<>>)
        ELSE PFail

ParseElems(s, p, acc) ==
    LET r == ParseValue(s, p)
        q == SkipWS(s, r.next)
    IN  IF ~r.ok THEN PFail
        ELSE IF At(s, q, ",") THEN ParseElems(s, q + 1, Append(acc, r.v))
        ELSE IF At(s, q, "]") THEN POk(JArr(Append(acc, r.v)), q + 1)
        ELSE PFail

ParseMembers(s, p0, ks, vs) ==
    LET p == SkipWS(s, p0)
        name == IF At(s, p, "\"") THEN ScanString(s, p) ELSE PFail
        c == SkipWS(s, name.next)
        r == ParseValue(s, c + 1)
        q == SkipWS(s, r.next)
    IN  IF ~name.ok THEN PFail
        ELSE IF \E n \in 1..Len(ks) : ks[n] = name.v.s THEN PFail
        ELSE IF ~At(s, c, ":") THEN PFail
        ELSE IF ~r.ok THEN PFail
        ELSE IF At(s, q, ",")
             THEN ParseMembers(s, q + 1, Append(ks, name.v.s), Append(vs, r.v))
        ELSE IF At(s, q, "}")
             THEN POk(JObj(Append(ks, name.v.s), Append(vs, r.v)), q + 1)
        ELSE PFail

\* one JSON value and nothing but whitespace after it
ParseJSON(s) ==
    LET r == ParseValue(s, 1)
    IN  IF r.ok /\ SkipWS(s, r.next) > Len(s) THEN r ELSE PFail

KeyArchitectures == <<"a","r","c","h","i","t","e","c","t","u","r","e","s">>

KeyInstructions == <<"i","n","s","t","r","u","c","t","i","o","n","s">>

\* a Go slice: nil, or its elements
NilSlice == [nil |-> TRUE, v |-> <<>>]
SliceOf(v) == [nil |-> FALSE, v |-> v]

\* the zero X86.  Of the struct's seven fields the model keeps the two the
\* claims read; the other five are decoded the same way and only dumped.
ZeroX86 == [Architectures |-> NilSlice, Instructions |-> NilSlice]

HasMember(obj, key) == \E n \in 1..Len(obj.k) : obj.k[n] = key
Member(obj, key) == obj.a[CHOOSE n \in 1..Len(obj.k) : obj.k[n] = key]

IsStrings(v) == v.t = "arr" /\ \A n \in 1..Len(v.a) : v.a[n].t = "str"
Strings(v) == [n \in 1..Len(v.a) |-> v.a[n].s]

\* [5]string: a JSON array of exactly five strings (and the same without
\* the length test, as encoding/json decodes arrays)
IsTupleAnyLength(v) == IsStrings(v)
IsTuple(v) == IsStrings(v) /\ Len(v.a) = 5

\* [5]string from a JSON array of any length: missing elements are "",
\* extra ones are dropped (reached only when IsTuple lets such an array by)
Tuple(v) == [n \in 1..5 |-> IF n <= Len(v.a) THEN v.a[n].s ELSE <<>>]

\* [][5]string
IsTuples(v) == v.t = "arr" /\ \A n \in 1..Len(v.a) : IsTuple(v.a[n])
Tuples(v) == [n \in 1..Len(v.a) |-> Tuple(v.a[n])]

\* `json:"instructions,omitempty"`: the member may be absent (and the same
\* with an absent member refused)
InstructionsRequired(obj) ==
    IF HasMember(obj, KeyInstructions)
    THEN LET v == Member(obj, KeyInstructions)
         IN  IF IsTuples(v) THEN [ok |-> TRUE, v |-> SliceOf(Tuples(v))]
             ELSE [ok |-> FALSE, v |-> NilSlice]
    ELSE [ok |-> FALSE, v |-> NilSlice]
DecodeInstructions(obj) ==
    IF HasMember(obj, KeyInstructions)
    THEN LET v == Member(obj, KeyInstructions)
         IN  IF IsTuples(v) THEN [ok |-> TRUE, v |-> SliceOf(Tuples(v))]
             ELSE [ok |-> FALSE, v |-> NilSlice]
    ELSE [ok |-> TRUE, v |-> NilSlice]

DecodeArchitectures(obj) ==
    IF HasMember(obj, KeyArchitectures)
    THEN LET v == Member(obj, KeyArchitectures)
         IN  IF IsStrings(v) THEN [ok |-> TRUE, v |-> SliceOf(Strings(v))]
             ELSE [ok |-> FALSE, v |-> NilSlice]
    ELSE [ok |-> TRUE, v |-> NilSlice]

\* json.Unmarshal(data, &x86Asm)
Unmarshal(data) ==
    LET r == ParseJSON(data)
        arch == DecodeArchitectures(r.v)
        inst == DecodeInstructions(r.v)
    IN  IF ~r.ok \/ r.v.t # "obj" THEN [ok |-> FALSE, v |-> ZeroX86]
        ELSE IF ~arch.ok \/ ~inst.ok THEN [ok |-> FALSE, v |-> ZeroX86]
        ELSE [ok |-> TRUE,
              v |-> [Architectures |-> arch.v, Instructions |-> inst.v]]

(***************************************************************************)
(* The embedded file (x86.go:184-185).  Its bytes are the input of a run:  *)
(* either any sequence of at most MaxPieces raw pieces, or a JSON          *)
(* document with at most MaxInsts instruction tuples written between the   *)
(* two magic comments.                                                     *)
(***************************************************************************)
Pieces == {markJSONBegin, markJSONEnd, NL, <<"{", "}">>}

RECURSIVE Flatten(_)
Flatten(ps) == IF ps = <<>> THEN <<>> ELSE Head(ps) \o Flatten(Tail(ps))

RawContents == {Flatten(ps) : ps \in UNION {[1..n -> Pieces] : n \in 0..MaxPieces}}

TupMov == <<<<"m","o","v">>, <<"r",",","r">>, <<"R","M">>, <<"0","x","8","9">>, <<>>>>

TupRet == <<<<"r","e","t">>, <<>>, <<"Z","O">>, <<"c","3">>, <<"X","6","4">>>>

TupShort == <<<<"n","o","p">>, <<>>, <<"Z","O">>, <<"9","0">>>>

TupLong == <<<<"a","d","d">>, <<"r",",","r">>, <<"M","R">>, <<"0","1">>, <<"O","F">>, <<"x">>>>

InstLists == UNION {[1..n -> {TupMov, TupRet, TupShort, TupLong}] : n \in 0..MaxInsts}

ArchX86 == <<<<"X","8","6">>>>

\* a document: each of the two members present or not
Docs == [hasArch : BOOLEAN, arch : {ArchX86}, hasInst : BOOLEAN, inst : InstLists]

Quote(s) == <<"\"">> \o s \o <<"\"">>

RECURSIVE Join(_)
Join(xs) ==
    IF xs = <<>> THEN <<>>
    ELSE IF Len(xs) = 1 THEN Head(xs)
    ELSE Head(xs) \o <<",">> \o Join(Tail(xs))

EncodeStrings(xs) == <<"[">> \o Join([n \in 1..Len(xs) |-> Quote(xs[n])]) \o <<"]">>

EncodeTuples(ts) == <<"[">> \o Join([n \in 1..Len(ts) |-> EncodeStrings(ts[n])]) \o <<"]">>

EncodeMember(key, value) == Quote(key) \o <<":">> \o value

Encode(doc) ==
    <<"{">>
    \o Join((IF doc.hasArch
             THEN <<EncodeMember(KeyArchitectures, EncodeStrings(doc.arch))>>
             ELSE <<>>)
            \o (IF doc.hasInst
                THEN <<EncodeMember(KeyInstructions, EncodeTuples(doc.inst))>>
                ELSE <<>>))
    \o <<"}">>

Prefix == <<"p","r","e","f","i","x","\n">>

Suffix == <<"\n","s","u","f","f","i","x">>

\* P + begin + "\n" + J + "\n" + end + S
Wrap(P, J, S) == P \o markJSONBegin \o NL \o J \o NL \o markJSONEnd \o S

\* what stands before and after the wrapped document: nothing; the text of
\* the end-to-end fixture; an end marker before and a second pair of markers
\* after; the first bytes of a marker
Wraps ==
    {<<<<>>, <<>>>>,
     <<Prefix, Suffix>>,
     <<markJSONEnd \o NL, NL \o markJSONEnd \o markJSONBegin>>,
     <<SubSeq(markJSONBegin, 1, 3), SubSeq(markJSONEnd, 1, 5)>>}

\* a document without the member has no tuples to write
InputDocs == {d \in Docs : d.hasInst \/ d.inst = <<>>}

DocContents == {Wrap(w[1], Encode(doc), w[2]) : w \in Wraps, doc \in InputDocs}

\* one byte after the begin marker, other than a newline
EdgeContents ==
    {markJSONBegin \o <<c>> \o t :
        c \in {"x", " ", "\t"},
        t \in {<<>>, markJSONEnd, NL \o markJSONEnd, <<"{", "}">> \o NL \o markJSONEnd}}

Contents == RawContents \cup DocContents \cup EdgeContents

(***************************************************************************)
(* main and gen (x86.go:191-230).                                          *)
(***************************************************************************)
ErrOpen == "read asmdb/x86data.js embeded file"
ErrParse == "parse asmdb data"
ErrUnmarshal == "unmarshal X86"

ZeroInstruction ==
    [Name |-> <<>>, Operands |-> <<>>, Encoding |-> <<>>, OpCode |-> <<>>,
     Metadata |-> <<>>]

\* the body of the range loop; inst[0] is inst[1] here (and the same with
\* two indices transposed)
MapInstTransposed(rec, inst) ==
    [rec EXCEPT !.Name = inst[1], !.Operands = inst[3], !.Encoding = inst[2],
                !.OpCode = inst[4], !.Metadata = inst[5]]
MapInst(rec, inst) ==
    [rec EXCEPT !.Name = inst[1], !.Operands = inst[2], !.Encoding = inst[3],
                !.OpCode = inst[4], !.Metadata = inst[5]]

\* fmt.Printf("<label>: %s\n", spew.Sdump(v)): one dump of v under its label
Printf(label, v) == [label |-> label, dump |-> v]

Init ==
    /\ content \in Contents
    /\ pc = "open"
    /\ err = <<>>
    /\ x86AsmData = <<>>
    /\ x86Asm = ZeroX86
    /\ instructions = NilSlice
    /\ insts = NilSlice
    /\ i = 0
    /\ stdout = <<>>
    /\ exit = -1

\* asmdbX86.Open
GenOpen ==
    /\ pc = "open"
    /\ \E ok \in BOOLEAN :
          IF ok THEN pc' = "parse" /\ err' = err
          ELSE pc' = "ret" /\ err' = <<ErrOpen, "open">>
    /\ UNCHANGED <<content, x86AsmData, x86Asm, instructions, insts, i,
                   stdout, exit>>

\* x86AsmData, err := parse(fsX86); a panic ends the process with code 2
GenParse ==
    /\ pc = "parse"
    /\ \E readOK \in BOOLEAN :
          LET r == parse(readOK, content)
          IN  IF r.err = Panic
              THEN pc' = "exit" /\ exit' = 2
                   /\ UNCHANGED <<err, x86AsmData>>
              ELSE IF r.err # "nil"
              THEN pc' = "ret" /\ err' = <<ErrParse, r.err>>
                   /\ UNCHANGED <<x86AsmData, exit>>
              ELSE pc' = "unmarshal" /\ x86AsmData' = r.data
                   /\ UNCHANGED <<err, exit>>
    /\ UNCHANGED <<content, x86Asm, instructions, insts, i, stdout>>

\* the same step with x86Asm printed before the error is looked at
GenUnmarshalPrintFirst ==
    /\ pc = "unmarshal"
    /\ LET r == Unmarshal(x86AsmData)
       IN  /\ stdout' = Append(stdout, Printf("x86asm", r.v))
           /\ IF r.ok
              THEN pc' = "copy" /\ x86Asm' = r.v /\ err' = err
              ELSE pc' = "ret" /\ err' = <<ErrUnmarshal, "json">>
                   /\ x86Asm' = x86Asm
    /\ UNCHANGED <<content, x86AsmData, instructions, insts, i, exit>>
\* json.Unmarshal(x86AsmData, &x86Asm)
GenUnmarshal ==
    /\ pc = "unmarshal"
    /\ LET r == Unmarshal(x86AsmData)
       IN  IF r.ok
           THEN pc' = "copy" /\ x86Asm' = r.v /\ err' = err
           ELSE pc' = "ret" /\ err' = <<ErrUnmarshal, "json">>
                /\ x86Asm' = x86Asm
    /\ UNCHANGED <<content, x86AsmData, instructions, insts, i, stdout, exit>>

\* instructions := x86Asm.Instructions; x86Asm.Instructions = nil
GenCopy ==
    /\ pc = "copy"
    /\ instructions' = x86Asm.Instructions
    /\ x86Asm' = [x86Asm EXCEPT !.Instructions = NilSlice]
    /\ pc' = "printx86"
    /\ UNCHANGED <<content, err, x86AsmData, insts, i, stdout, exit>>

\* fmt.Printf("x86asm: %s\n", spew.Sdump(x86Asm))
GenPrintX86 ==
    /\ pc = "printx86"
    /\ stdout' = Append(stdout, Printf("x86asm", x86Asm))
    /\ pc' = "make"
    /\ UNCHANGED <<content, err, x86AsmData, x86Asm, instructions, insts, i,
                   exit>>

\* insts := make([]X86Instruction, len(instructions))
GenMake ==
    /\ pc = "make"
    /\ insts' = SliceOf([n \in 1..Len(instructions.v) |-> ZeroInstruction])
    /\ i' = 0
    /\ pc' = "range"
    /\ UNCHANGED <<content, err, x86AsmData, x86Asm, instructions, stdout,
                   exit>>

\* one iteration of for i, inst := range instructions
GenRange ==
    /\ pc = "range"
    /\ i < Len(instructions.v)
    /\ insts' = [insts EXCEPT
                    !.v[i + 1] = MapInst(insts.v[i + 1], instructions.v[i + 1])]
    /\ i' = i + 1
    /\ UNCHANGED <<content, pc, err, x86AsmData, x86Asm, instructions, stdout,
                   exit>>

\* fmt.Printf("Instructions: %s\n", spew.Sdump(insts)); return nil
GenPrintInsts ==
    /\ pc = "range"
    /\ i = Len(instructions.v)
    /\ stdout' = Append(stdout, Printf("Instructions", insts))
    /\ pc' = "ret"
    /\ UNCHANGED <<content, err, x86AsmData, x86Asm, instructions, insts, i,
                   exit>>

\* main: log.Fatal(err) exits with code 1, a nil error with code 0
Main ==
    /\ pc = "ret"
    /\ exit' = IF err = <<>> THEN 0 ELSE 1
    /\ pc' = "exit"
    /\ UNCHANGED <<content, err, x86AsmData, x86Asm, instructions, insts, i,
                   stdout>>

Next ==
    \/ GenOpen
    \/ GenParse
    \/ GenUnmarshal
    \/ GenCopy
    \/ GenPrintX86
    \/ GenMake
    \/ GenRange
    \/ GenPrintInsts
    \/ Main

Spec == Init /\ [][Next]_vars

(***************************************************************************)
(* Vocabulary of the properties, defined on the file's bytes and on the    *)
(* state gen leaves behind, without the operators parse is built from.     *)
(***************************************************************************)
OccursAt(s, sep, k) ==
    k >= 0 /\ k + Len(sep) <= Len(s) /\ SubSeq(s, k + 1, k + Len(sep)) = sep

Occurs(s, sep) == \E k \in 0..Len(s) : OccursAt(s, sep, k)

\* least k >= from at which sep occurs in s (there must be one)
FirstFrom(s, sep, from) ==
    CHOOSE k \in from..Len(s) :
        OccursAt(s, sep, k) /\ \A m \in from..(k - 1) : ~OccursAt(s, sep, m)

HasBegin == Occurs(content, markJSONBegin)

\* 0-based offset of the first byte after the first begin marker
AfterBegin == FirstFrom(content, markJSONBegin, 0) + Len(markJSONBegin)

\* what follows the first begin marker, and the same less its first byte
Rest == SubSeq(content, AfterBegin + 1, Len(content))
Dropped == SubSeq(Rest, 2, Len(Rest))

\* parse has been called and has returned (or panicked)
Parsed == pc \notin {"open", "parse"} /\ ~(err # <<>> /\ err[1] = ErrOpen)

\* the error parse returned, as gen saw it
ParseErr ==
    IF exit = 2 THEN Panic
    ELSE IF err # <<>> /\ err[1] = ErrParse THEN err[2]
    ELSE "nil"

\* parse has returned and io.ReadAll had given it the file's bytes
ParsedBytes == Parsed /\ ParseErr # ErrRead

\* the file could not be opened or read
IOFault == err # <<>> /\ (err[1] = ErrOpen \/ err[2] = ErrRead)

\* the file is P + begin + "\n" + J + "\n" + end + S with J non-empty, the
\* begin marker the first one, the end marker the first one after it
WellFormed ==
    /\ HasBegin
    /\ \E k \in AfterBegin..Len(content) : OccursAt(content, markJSONEnd, k)
    /\ LET e == FirstFrom(content, markJSONEnd, AfterBegin)
       IN  /\ e >= AfterBegin + 3
           /\ content[AfterBegin + 1] = "\n"
           /\ content[e] = "\n"

PartP == SubSeq(content, 1, AfterBegin - Len(markJSONBegin))
PartJ == SubSeq(content, AfterBegin + 2,
                FirstFrom(content, markJSONEnd, AfterBegin) - 1)
PartS == SubSeq(content,
                FirstFrom(content, markJSONEnd, AfterBegin) + Len(markJSONEnd) + 1,
                Len(content))

(***************************************************************************)
(* C1.  On a file P + begin + "\n" + J + "\n" + end + S, J non-empty,      *)
(* begin its first begin marker and end the first end marker after it,     *)
(* parse succeeds and returns exactly J: wrapping the result again gives   *)
(* the file back byte for byte.                                            *)
(***************************************************************************)
C1_ExtractRoundTrip ==
    (ParsedBytes /\ WellFormed) =>
        /\ ParseErr = "nil"
        /\ x86AsmData = PartJ
        /\ PartP \o markJSONBegin \o NL \o x86AsmData \o NL \o markJSONEnd
               \o PartS = content

\* a file with bytes before and after the markers and an end marker before
\* the begin marker, parsed
C1_Witness ==
    /\ ParsedBytes /\ WellFormed
    /\ pc = "unmarshal"
    /\ Occurs(PartP, markJSONEnd) /\ PartS # <<>>
    /\ Len(x86AsmData) >= 2

(***************************************************************************)
(* C2.  On a file without the begin marker (with or without the end        *)
(* marker) parse returns no data and the begin-marker error, never the     *)
(* end-marker or empty-payload error.                                      *)
(***************************************************************************)
C2_NoBeginMarker ==
    (ParsedBytes /\ ~HasBegin) =>
        /\ ParseErr = ErrSplit
        /\ x86AsmData = <<>>
        /\ pc \in {"ret", "exit"}

C2_Witness ==
    /\ ParsedBytes /\ ~HasBegin
    /\ Occurs(content, markJSONEnd)
    /\ pc = "ret" /\ err = <<ErrParse, ErrSplit>>

(***************************************************************************)
(* C3.  As claimed: on a file with the begin marker, if what follows the   *)
(* first begin marker, less its leading byte, does not contain the end     *)
(* marker or starts with it, parse returns no data and the end-marker      *)
(* error.                                                                  *)
(***************************************************************************)
C3_Claimed ==
    (ParsedBytes /\ HasBegin
        /\ (~Occurs(Dropped, markJSONEnd) \/ OccursAt(Dropped, markJSONEnd, 0))) =>
        /\ ParseErr = ErrFind
        /\ x86AsmData = <<>>

(***************************************************************************)
(* C3, amended.  The same, for a file with at least one byte after its     *)
(* first begin marker (with none, parse returns the empty-payload error    *)
(* before it looks for the end marker).                                    *)
(***************************************************************************)
C3_NoEndMarker ==
    (ParsedBytes /\ HasBegin /\ Len(Rest) >= 1
        /\ (~Occurs(Dropped, markJSONEnd) \/ OccursAt(Dropped, markJSONEnd, 0))) =>
        /\ ParseErr = ErrFind
        /\ x86AsmData = <<>>
        /\ pc \in {"ret", "exit"}

\* the end marker occurs in the file, but only before the begin marker
C3_Witness ==
    /\ ParsedBytes /\ HasBegin /\ Len(Rest) >= 1
    /\ Occurs(content, markJSONEnd) /\ ~Occurs(Rest, markJSONEnd)
    /\ pc = "ret" /\ err = <<ErrParse, ErrFind>>

(***************************************************************************)
(* C4.  As claimed: parse never succeeds with an empty result; it returns  *)
(* an error or at least one byte.                                          *)
(***************************************************************************)
C4_Claimed ==
    (Parsed /\ ParseErr = "nil") => Len(x86AsmData) >= 1

(***************************************************************************)
(* C5.  As claimed: on a file with the begin marker where what follows     *)
(* the first begin marker is empty, or is a single newline or other        *)
(* whitespace byte, parse returns the empty-payload error and no other.    *)
(***************************************************************************)
C5_Claimed ==
    (ParsedBytes /\ HasBegin
        /\ (Len(Rest) = 0 \/ (Len(Rest) = 1 /\ IsWS(Rest[1])))) =>
        ParseErr = ErrEmpty

(***************************************************************************)
(* C5, amended.  On a file that ends with its first begin marker parse     *)
(* returns the empty-payload error and no other; when a single byte        *)
(* follows the first begin marker parse returns the end-marker error.      *)
(***************************************************************************)
C5_EmptyPayload ==
    /\ (ParsedBytes /\ HasBegin /\ Len(Rest) = 0) =>
           ParseErr = ErrEmpty /\ x86AsmData = <<>> /\ pc \in {"ret", "exit"}
    /\ (ParsedBytes /\ HasBegin /\ Len(Rest) = 1) =>
           ParseErr = ErrFind /\ x86AsmData = <<>> /\ pc \in {"ret", "exit"}

C5_Witness ==
    /\ ParsedBytes /\ HasBegin /\ Len(Rest) = 0
    /\ Len(content) > Len(markJSONBegin)
    /\ pc = "ret" /\ err = <<ErrParse, ErrEmpty>>

(***************************************************************************)
(* C10.  parse never slices out of range: on every file it returns an      *)
(* error or a slice, never panics.                                         *)
(***************************************************************************)
C10_NoPanic ==
    /\ exit # 2
    /\ Parsed =>
          /\ ParseErr \in {"nil", ErrRead, ErrSplit, ErrEmpty, ErrFind}
          /\ ParseErr # "nil" => x86AsmData = <<>>

\* data[:idx-1] with idx = 1: the end marker at index 1 of the trimmed data
C10_Witness ==
    /\ ParsedBytes /\ HasBegin
    /\ Len(Rest) >= 2 /\ OccursAt(Rest, markJSONEnd, 2)
    /\ pc = "unmarshal" /\ exit # 2

(***************************************************************************)
(* Vocabulary of the properties on gen.                                    *)
(***************************************************************************)
IsContentOf(doc) == \E w \in Wraps : content = Wrap(w[1], Encode(doc), w[2])

\* gen has returned nil
Done == pc \in {"ret", "exit"} /\ err = <<>> /\ exit # 2

\* the record the claim gives for the tuple t
Named(t) ==
    [Name |-> t[1], Operands |-> t[2], Encoding |-> t[3], OpCode |-> t[4],
     Metadata |-> t[5]]

\* the fixture of the end-to-end scenario, byte for byte
Fixture ==
    <<"p","r","e","f","i","x","\n","/","/"," ","$","{","J","S","O","N",":",
      "B","E","G","I","N","}","\n","{","\"","a","r","c","h","i","t","e","c",
      "t","u","r","e","s","\"",":","[","\"","X","8","6","\"","]",",","\"",
      "i","n","s","t","r","u","c","t","i","o","n","s","\"",":","[","[","\"",
      "m","o","v","\"",",","\"","r",",","r","\"",",","\"","R","M","\"",",",
      "\"","0","x","8","9","\"",",","\"","\"","]","]","}","\n","/","/"," ",
      "$","{","J","S","O","N",":","E","N","D","}","\n","s","u","f","f","i",
      "x">>

(***************************************************************************)
(* C6.  With T the tuple list as decoded, the derived sequence has len(T)  *)
(* records in T's order, the n-th with name, operands, encoding, opcode,   *)
(* metadata = T[n][0..4]; clearing x86Asm.Instructions removes or alters   *)
(* none of them.  The tuple ["mov","r,r","RM","0x89",""] yields the one    *)
(* record {mov, r,r, RM, 0x89, ""}.                                        *)
(***************************************************************************)
C6_DerivedInstructions ==
    LET T == Unmarshal(x86AsmData).v.Instructions.v
    IN  /\ (pc \in {"printx86", "make", "range"} \/ Done) =>
               instructions.v = T /\ x86Asm.Instructions = NilSlice
        /\ pc = "range" =>
               /\ Len(insts.v) = Len(T)
               /\ \A n \in 1..Len(T) :
                     insts.v[n] = IF n <= i THEN Named(T[n]) ELSE ZeroInstruction
        /\ Done =>
               /\ Len(insts.v) = Len(T)
               /\ \A n \in 1..Len(T) :
                     /\ insts.v[n].Name = T[n][1]
                     /\ insts.v[n].Operands = T[n][2]
                     /\ insts.v[n].Encoding = T[n][3]
                     /\ insts.v[n].OpCode = T[n][4]
                     /\ insts.v[n].Metadata = T[n][5]
               /\ \A doc \in InputDocs :
                     IsContentOf(doc) =>
                         insts.v = [n \in 1..Len(doc.inst) |-> Named(doc.inst[n])]
        /\ (Done /\ content = Fixture) =>
               /\ x86Asm.Architectures.v = <<<<"X", "8", "6">>>>
               /\ insts.v = <<[Name |-> <<"m", "o", "v">>,
                               Operands |-> <<"r", ",", "r">>,
                               Encoding |-> <<"R", "M">>,
                               OpCode |-> <<"0", "x", "8", "9">>,
                               Metadata |-> <<>>]>>

\* the end-to-end fixture, run to the end
C6_Witness ==
    /\ Done /\ pc = "exit"
    /\ content = Fixture
    /\ Len(insts.v) = 1 /\ insts.v[1].Operands = <<"r", ",", "r">>

(***************************************************************************)
(* C7.  When the JSON object omits "instructions" (the file opened and     *)
(* read), gen returns no error and the derived sequence is empty; the      *)
(* error, the derived sequence and the output are those of the same        *)
(* object with "instructions":[].                                          *)
(***************************************************************************)
EmptyOutcome(hasArch) ==
    <<Printf("x86asm",
             [Architectures |-> IF hasArch THEN SliceOf(ArchX86) ELSE NilSlice,
              Instructions |-> NilSlice]),
      Printf("Instructions", SliceOf(<<>>))>>

C7_OmittedInstructions ==
    (pc \in {"ret", "exit"} /\ ~IOFault) =>
        \A doc \in {d \in InputDocs : d.inst = <<>>} :
            IsContentOf(doc) =>
                /\ err = <<>>
                /\ insts = SliceOf(<<>>)
                /\ stdout = EmptyOutcome(doc.hasArch)
                /\ pc = "exit" => exit = 0

C7_Witness ==
    /\ pc = "exit" /\ exit = 0
    /\ IsContentOf([hasArch |-> TRUE, arch |-> ArchX86, hasInst |-> FALSE,
                    inst |-> <<>>])
    /\ insts = SliceOf(<<>>)

(***************************************************************************)
(* C8.  As claimed: when "instructions" holds a tuple whose length is not  *)
(* 5, the run fails with the error of the tuple-to-record mapping step,    *)
(* and no derived record is produced.                                      *)
(***************************************************************************)
HasBadTuple(doc) == doc.hasInst /\ \E n \in 1..Len(doc.inst) : Len(doc.inst[n]) # 5

C8_Claimed ==
    (pc = "exit" /\ ~IOFault) =>
        \A doc \in {d \in InputDocs : HasBadTuple(d)} :
            IsContentOf(doc) =>
                /\ exit = 1
                /\ err # <<>> /\ err[1] \notin {ErrOpen, ErrParse, ErrUnmarshal}
                /\ insts.v = <<>>

(***************************************************************************)
(* C8, amended.  When "instructions" holds a tuple whose length is not 5   *)
(* (the file opened and read), the run fails in the decoding step, with    *)
(* the "unmarshal X86" error: the mapping step is never reached, nothing   *)
(* is printed and no derived record is produced.                           *)
(***************************************************************************)
C8_DecodeRejects ==
    (Parsed /\ ~IOFault) =>
        \A doc \in {d \in InputDocs : HasBadTuple(d)} :
            IsContentOf(doc) =>
                /\ pc \in {"unmarshal", "ret", "exit"}
                /\ pc # "unmarshal" => err = <<ErrUnmarshal, "json">>
                /\ pc = "exit" => exit = 1
                /\ insts = NilSlice
                /\ stdout = <<>>

\* a well-formed tuple followed by one of four strings
C8_Witness ==
    /\ pc = "exit" /\ exit = 1
    /\ err = <<ErrUnmarshal, "json">>
    /\ IsContentOf([hasArch |-> TRUE, arch |-> ArchX86, hasInst |-> TRUE,
                    inst |-> <<TupMov, TupShort>>])

(***************************************************************************)
(* C9.  No partial success.  A run in which a step failed ends with a      *)
(* non-zero exit code and nothing on standard output; a run that wrote     *)
(* anything has no error and ends with exit code 0 and the two dumps:      *)
(* x86Asm with Instructions cleared, then the derived instructions.        *)
(***************************************************************************)
C9_NoPartialSuccess ==
    /\ err # <<>> => stdout = <<>> /\ pc \in {"ret", "exit"}
    /\ (pc = "exit" /\ err # <<>>) => exit = 1
    /\ exit \in {1, 2} => stdout = <<>>
    /\ stdout # <<>> =>
          /\ err = <<>>
          /\ stdout[1] = Printf("x86asm", x86Asm)
          /\ x86Asm.Instructions = NilSlice
          /\ Len(stdout) <= 2
          /\ Len(stdout) = 2 =>
                stdout[2] = Printf("Instructions", insts) /\ pc \in {"ret", "exit"}
    /\ (pc = "exit" /\ stdout # <<>>) => exit = 0 /\ Len(stdout) = 2
    /\ (pc = "exit" /\ exit = 0) => Len(stdout) = 2

C9_Witness ==
    /\ pc = "exit" /\ exit = 0
    /\ Len(stdout) = 2
    /\ Len(stdout[2].dump.v) = MaxInsts

=============================================================================
